---- MODULE Spec2Model ----
(***************************************************************************)
(* Voice turn-taking engine of the VoiceChatRealtime component             *)
(* (src/unnamed/part_001): conversation state, voice-activity classifier,  *)
(* utterance recorder, dialogue pipeline and playback, as one state        *)
(* machine.  Every handler of the component is an operator from a state    *)
(* record to a state record (the refs and React state are its fields), so  *)
(* that a handler that calls another one is the composition of the two.    *)
(*                                                                         *)
(* Energies and thresholds are in thousandths (0.035 is 35).  Wall-clock   *)
(* time is abstracted: the silence timer may fire at any moment after it   *)
(* was armed, and the elapsed recording time takes the two values 0 and    *)
(* MAX_RECORDING_MS + 1.                                                   *)
(***************************************************************************)
EXTENDS Integers, Sequences, FiniteSets, TLC

\* ---------------------------------------------------------------- constants
VOICE_THRESHOLD == 35
SILENCE_THRESHOLD == 15
VOICE_FRAMES_REQUIRED == 5
SILENCE_FRAMES_REQUIRED == 15
MAX_RECORDING_MS == 60000
MIN_BLOB_SIZE == 1000

\* ------------------------------------------------------------------- bounds
MaxSessions == 2        \* startConversation calls in a run
MaxUtterances == 1      \* times speech is confirmed in a run
MaxUtterancesLong == 2  \* the same, in the runs of SpecLong
MaxStops == 1           \* stopConversation calls in a run
MaxVoiceRun == 6        \* longest run of voice frames offered to the classifier
MaxSilenceRun == 16     \* longest run of not-speaking frames offered to the classifier
MaxHookSessions == 2    \* SDK sessions the hook starts in a run
MaxIdleTimers == 1      \* pending error-to-idle resets of the hook at a time
MaxChunks == 2          \* chunks buffered in one recording
ChunkBytes == 600       \* size of one non-empty chunk

Energies == {5, 15, 25, 35, 40}
ConversationState == {"idle", "connecting", "listening", "processing", "speaking"}

VARIABLES
    platformOS,            \* Platform.OS
    mounted,               \* the component is mounted
    recorderSupported,     \* the platform can record audio/webm;codecs=opus
    state,                 \* React state `state` (value of the last setState)
    stateRef,              \* stateRef.current, synced by an effect after render
    error,                 \* React state `error`
    messages,              \* message log, the type of each message
    isActiveRef, isProcessingRef, hasSpokenRef,
    voiceFrameCountRef, silenceFrameCountRef,
    silenceTimeoutRef,     \* TRUE iff the handle is non-null
    silenceTimers,         \* silence timeouts scheduled and not yet fired/cleared
    vadIntervalRef,        \* "null", "live" (its callback is scheduled), "stale"
    rafScheduled,          \* animation-frame callbacks scheduled
    mediaRecorderRef,      \* "null", or the state of the referenced recorder
    orphanRecorders,       \* recorders still recording that no ref holds
    onstopPending,         \* recorder stop events queued, not yet delivered
    chunksRef,             \* sizes of the buffered chunks
    recordingElapsed,      \* Date.now() - recordingStartTimeRef.current
    streamRef,             \* TRUE iff a stream is held
    liveStreams,           \* acquired streams whose tracks are live
    audioContextRef, analyserRef,
    currentAudioRef,       \* "null", or the stage of the referenced element
    audioLoading,          \* audio elements whose play() is pending
    audioPlaying,          \* audio elements playing
    playRejectPending,     \* rejected play() promises not yet delivered
    getUserMediaPending,   \* TRUE iff microphone acquisition is pending
    transcribeInFlight, commandInFlight,
    errorTimers,           \* pending setTimeout(() => setError(null))
    sessionIdsSent,        \* history: the sessionId of every /voice/command
                           \* request of the current conversation, as its
                           \* age Date.now() - id (0, or 1 for any older)
    utteranceLimit,        \* the bound on utterances of this run
    recStarted,            \* history: the last step began a new recording
    timerCancelled,        \* history: the last step's voice frame cleared a pending timer
    discarded,             \* history: the last step dropped a recording as noise
    voiceRun,              \* history: voice frames classified in a row, up to
                           \* now, in a recording whose speech is not yet confirmed
    sessions, utterances, stops,  \* history counters for the bounds
    \* ---- the useCharlieVoice hook (part_002)
    status,                \* the store's status
    storeError,            \* the store's error
    expanded,              \* the store's expanded flag
    conversationRef,       \* 0 for null, or the SDK session it holds
    isUnmountingRef, isConnectingRef,
    startPc,               \* the await the running startConversation is at
    sdk,                   \* the state of every SDK session
    endAwait,              \* sessions whose endSession() an endConversation awaits
    idleTimers,            \* pending setTimeout(() => setStatus('idle'), 2000)
    connectDue             \* sessions whose onConnect the SDK has not yet called

compVars == <<platformOS, mounted, recorderSupported, state, stateRef, error, messages, isActiveRef,
          isProcessingRef, hasSpokenRef, voiceFrameCountRef,
          silenceFrameCountRef, silenceTimeoutRef, silenceTimers,
          vadIntervalRef, rafScheduled, mediaRecorderRef, orphanRecorders,
          onstopPending, chunksRef, recordingElapsed, streamRef, liveStreams,
          audioContextRef, analyserRef, currentAudioRef, audioLoading,
          audioPlaying, playRejectPending, getUserMediaPending,
          transcribeInFlight, commandInFlight, errorTimers,
          sessionIdsSent, utteranceLimit,
          recStarted, timerCancelled, discarded, voiceRun, sessions, utterances, stops>>

hookVars == <<status, storeError, expanded, conversationRef, isUnmountingRef,
              isConnectingRef, startPc, sdk, endAwait, idleTimers,
              connectDue>>

vars == <<compVars, hookVars>>

\* The current state as a record; `ok` records that every input consumed in
\* the step was inside the bounds.
Cur ==
    [platformOS |-> platformOS, mounted |-> mounted,
     recorderSupported |-> recorderSupported,
     state |-> state, stateRef |-> stateRef,
     error |-> error, messages |-> messages, isActiveRef |-> isActiveRef,
     isProcessingRef |-> isProcessingRef, hasSpokenRef |-> hasSpokenRef,
     voiceFrameCountRef |-> voiceFrameCountRef,
     silenceFrameCountRef |-> silenceFrameCountRef,
     silenceTimeoutRef |-> silenceTimeoutRef, silenceTimers |-> silenceTimers,
     vadIntervalRef |-> vadIntervalRef, rafScheduled |-> rafScheduled,
     mediaRecorderRef |-> mediaRecorderRef,
     orphanRecorders |-> orphanRecorders, onstopPending |-> onstopPending,
     chunksRef |-> chunksRef, recordingElapsed |-> recordingElapsed,
     streamRef |-> streamRef, liveStreams |-> liveStreams,
     audioContextRef |-> audioContextRef, analyserRef |-> analyserRef,
     currentAudioRef |-> currentAudioRef, audioLoading |-> audioLoading,
     audioPlaying |-> audioPlaying, playRejectPending |-> playRejectPending,
     getUserMediaPending |-> getUserMediaPending,
     transcribeInFlight |-> transcribeInFlight,
     commandInFlight |-> commandInFlight, errorTimers |-> errorTimers,
     sessionIdsSent |-> sessionIdsSent,
     utteranceLimit |-> utteranceLimit,
     recStarted |-> recStarted, timerCancelled |-> timerCancelled,
     voiceRun |-> voiceRun, discarded |-> discarded,
     sessions |-> sessions, utterances |-> utterances, stops |-> stops,
     ok |-> TRUE]

\* the state a handler starts from
Begin ==
    [Cur EXCEPT !.recStarted = FALSE, !.timerCancelled = FALSE,
                !.discarded = FALSE]

Apply(r) ==
    /\ r.ok
    /\ UNCHANGED hookVars
    /\ platformOS' = r.platformOS
    /\ mounted' = r.mounted
    /\ recorderSupported' = r.recorderSupported
    /\ state' = r.state
    /\ stateRef' = r.stateRef
    /\ error' = r.error
    /\ messages' = r.messages
    /\ isActiveRef' = r.isActiveRef
    /\ isProcessingRef' = r.isProcessingRef
    /\ hasSpokenRef' = r.hasSpokenRef
    /\ voiceFrameCountRef' = r.voiceFrameCountRef
    /\ silenceFrameCountRef' = r.silenceFrameCountRef
    /\ silenceTimeoutRef' = r.silenceTimeoutRef
    /\ silenceTimers' = r.silenceTimers
    /\ vadIntervalRef' = r.vadIntervalRef
    /\ rafScheduled' = r.rafScheduled
    /\ mediaRecorderRef' = r.mediaRecorderRef
    /\ orphanRecorders' = r.orphanRecorders
    /\ onstopPending' = r.onstopPending
    /\ chunksRef' = r.chunksRef
    /\ recordingElapsed' = r.recordingElapsed
    /\ streamRef' = r.streamRef
    /\ liveStreams' = r.liveStreams
    /\ audioContextRef' = r.audioContextRef
    /\ analyserRef' = r.analyserRef
    /\ currentAudioRef' = r.currentAudioRef
    /\ audioLoading' = r.audioLoading
    /\ audioPlaying' = r.audioPlaying
    /\ playRejectPending' = r.playRejectPending
    /\ getUserMediaPending' = r.getUserMediaPending
    /\ transcribeInFlight' = r.transcribeInFlight
    /\ commandInFlight' = r.commandInFlight
    /\ errorTimers' = r.errorTimers
    /\ sessionIdsSent' = r.sessionIdsSent
    /\ utteranceLimit' = r.utteranceLimit
    /\ recStarted' = r.recStarted
    /\ timerCancelled' = r.timerCancelled
    /\ voiceRun' = r.voiceRun
    /\ discarded' = r.discarded
    /\ sessions' = r.sessions
    /\ utterances' = r.utterances
    /\ stops' = r.stops

\* ------------------------------------------------------------------ helpers
\* a state setter called after the component unmounted changes nothing
setState(s, v) == IF s.mounted THEN [s EXCEPT !.state = v] ELSE s

setError(s, v) == IF s.mounted THEN [s EXCEPT !.error = v] ELSE s

addMessage(s, type) ==
    IF s.mounted THEN [s EXCEPT !.messages = Append(@, type)] ELSE s

\* if (silenceTimeoutRef.current) { clearTimeout(...); silenceTimeoutRef.current = null }
clearSilenceTimeout(s) ==
    IF s.silenceTimeoutRef
    THEN [s EXCEPT !.silenceTimers = @ - 1, !.silenceTimeoutRef = FALSE]
    ELSE s

\* vadIntervalRef.current = requestAnimationFrame(detectVoiceActivity)
requestAnimationFrame(s) ==
    [s EXCEPT !.rafScheduled = @ + 1, !.vadIntervalRef = "live"]

BlobSize(chunks) == Len(chunks) * ChunkBytes

\* Date.now() has advanced: every identifier made from an earlier Date.now()
\* is now older than the present one
timePasses(s) ==
    [s EXCEPT !.sessionIdsSent = IF @ = {} THEN {} ELSE {1}]

\* ------------------------------------------------------------------ cleanup
cleanup(s) ==
    LET s1 == [s EXCEPT !.isActiveRef = FALSE, !.isProcessingRef = FALSE,
                        !.hasSpokenRef = FALSE, !.voiceFrameCountRef = 0, !.voiceRun = 0,
                        !.silenceFrameCountRef = 0]
        s2 == clearSilenceTimeout(s1)
        \* cancelAnimationFrame of a handle whose callback already ran does nothing
        s3 == IF s2.vadIntervalRef = "null" THEN s2
              ELSE [s2 EXCEPT !.rafScheduled =
                                  IF s2.vadIntervalRef = "live" THEN @ - 1 ELSE @,
                              !.vadIntervalRef = "null"]
        \* pause(): a playing element stops; a pending play() is rejected
        s4 == IF s3.currentAudioRef = "null" THEN s3
              ELSE [s3 EXCEPT
                      !.audioPlaying =
                          IF s3.currentAudioRef = "playing" THEN @ - 1 ELSE @,
                      !.audioLoading =
                          IF s3.currentAudioRef = "loading" THEN @ - 1 ELSE @,
                      !.playRejectPending =
                          IF s3.currentAudioRef = "loading" THEN @ + 1 ELSE @,
                      !.currentAudioRef = "null"]
        s5 == [s4 EXCEPT
                  !.onstopPending =
                      IF s4.mediaRecorderRef = "recording" THEN @ + 1 ELSE @,
                  !.mediaRecorderRef = "null"]
        \* stopping the tracks ends every recorder still recording the stream
        s6 == IF s5.streamRef
              THEN [s5 EXCEPT !.liveStreams = @ - 1, !.streamRef = FALSE,
                              !.onstopPending = @ + s5.orphanRecorders,
                              !.orphanRecorders = 0]
              ELSE s5
    IN  [s6 EXCEPT !.audioContextRef = FALSE]

\* --------------------------------------------------- processCurrentRecording
processCurrentRecording(s) ==
    IF s.mediaRecorderRef = "recording"
    THEN [s EXCEPT !.mediaRecorderRef = "inactive", !.onstopPending = @ + 1]
    ELSE s

\* ------------------------------------------------------ detectVoiceActivity
\* The frames the bounds let the microphone produce while the classifier
\* reads them: bounded runs, and speech confirmed at most MaxUtterances times.
FrameOffered(s, average) ==
    /\ average >= VOICE_THRESHOLD =>
          /\ s.voiceFrameCountRef < MaxVoiceRun
          /\ s.hasSpokenRef \/ s.utterances < s.utteranceLimit
    /\ average < VOICE_THRESHOLD => s.silenceFrameCountRef < MaxSilenceRun

isVoice(average) == average >= VOICE_THRESHOLD

isNotSpeaking(s, average) ==
    IF s.hasSpokenRef THEN average < VOICE_THRESHOLD
    ELSE average < SILENCE_THRESHOLD

\* variant of voiceFrame that leaves a pending silence timeout alone
voiceFrameKeepingTimer(s) ==
    LET n == s.voiceFrameCountRef + 1
        confirm == n >= VOICE_FRAMES_REQUIRED /\ ~s.hasSpokenRef
    IN  [s EXCEPT !.voiceFrameCountRef = n,
                  !.silenceFrameCountRef = 0,
                  !.hasSpokenRef = IF confirm THEN TRUE ELSE @,
                  !.utterances = IF confirm THEN @ + 1 ELSE @,
                  !.voiceRun = IF confirm \/ s.hasSpokenRef THEN 0 ELSE @ + 1]

\* lines 195-210: a voice frame
voiceFrame(s) ==
    LET n == s.voiceFrameCountRef + 1
        confirm == n >= VOICE_FRAMES_REQUIRED /\ ~s.hasSpokenRef
        s1 == [s EXCEPT !.voiceFrameCountRef = n,
                        !.silenceFrameCountRef = 0,
                        !.hasSpokenRef = IF confirm THEN TRUE ELSE @,
                        !.utterances = IF confirm THEN @ + 1 ELSE @,
                        !.voiceRun = IF confirm \/ s.hasSpokenRef THEN 0 ELSE @ + 1,
                        !.timerCancelled = s.silenceTimeoutRef]
    IN  clearSilenceTimeout(s1)

\* variant of silenceFrame that arms the timeout one frame late
silenceFrameLate(s) ==
    LET n == s.silenceFrameCountRef + 1
        s1 == [s EXCEPT !.silenceFrameCountRef = n, !.voiceFrameCountRef = 0, !.voiceRun = 0]
    IN  IF s1.hasSpokenRef /\ n > SILENCE_FRAMES_REQUIRED /\ ~s1.silenceTimeoutRef
        THEN [s1 EXCEPT !.silenceTimeoutRef = TRUE, !.silenceTimers = @ + 1]
        ELSE s1

\* lines 211-232: a not-speaking frame
silenceFrame(s) ==
    LET n == s.silenceFrameCountRef + 1
        s1 == [s EXCEPT !.silenceFrameCountRef = n, !.voiceFrameCountRef = 0, !.voiceRun = 0]
    IN  IF s1.hasSpokenRef /\ n >= SILENCE_FRAMES_REQUIRED /\ ~s1.silenceTimeoutRef
        THEN [s1 EXCEPT !.silenceTimeoutRef = TRUE, !.silenceTimers = @ + 1]
        ELSE s1

\* variant of decayFrame without the floor at zero
decayFrameUnclamped(s) ==
    [s EXCEPT !.voiceFrameCountRef = @ - 1, !.voiceRun = 0]

\* variant of decayFrame that also restarts the silence count
decayFrameResetting(s) ==
    [s EXCEPT !.voiceFrameCountRef =
                  IF s.voiceFrameCountRef - 1 > 0 THEN s.voiceFrameCountRef - 1 ELSE 0,
              !.silenceFrameCountRef = 0,
              !.voiceRun = 0]

\* lines 233-236: the decay band
decayFrame(s) ==
    [s EXCEPT !.voiceFrameCountRef =
                  IF s.voiceFrameCountRef - 1 > 0 THEN s.voiceFrameCountRef - 1 ELSE 0,
              !.voiceRun = 0]

classifyFrame(s, average) ==
    LET s0 == [s EXCEPT !.ok = @ /\ FrameOffered(s, average)]
    IN  IF isVoice(average) THEN voiceFrame(s0)
        ELSE IF isNotSpeaking(s0, average) THEN silenceFrame(s0)
        ELSE decayFrame(s0)

\* variant of maxDurationReached that does not ask for confirmed speech
maxDurationAlone(s) ==
    s.recordingElapsed > MAX_RECORDING_MS

\* lines 184-189: the fallback's condition
maxDurationReached(s) ==
    s.recordingElapsed > MAX_RECORDING_MS /\ s.hasSpokenRef

\* variant of detectVoiceActivity whose fallback spares a voice frame
detectVoiceActivitySparingVoice(s, average) ==
    IF ~s.analyserRef \/ ~s.isActiveRef THEN s
    ELSE IF s.mediaRecorderRef = "recording" /\ s.stateRef = "listening"
         THEN IF maxDurationReached(s) /\ ~isVoice(average)
              THEN processCurrentRecording(s)
              ELSE LET s1 == classifyFrame(s, average)
                   IN  IF s1.isActiveRef THEN requestAnimationFrame(s1) ELSE s1
         ELSE IF s.isActiveRef THEN requestAnimationFrame(s) ELSE s

\* lines 164-243
detectVoiceActivity(s, average) ==
    IF ~s.analyserRef \/ ~s.isActiveRef THEN s
    ELSE IF s.mediaRecorderRef = "recording" /\ s.stateRef = "listening"
         THEN IF maxDurationReached(s)
              THEN processCurrentRecording(s)      \* returns: no new frame requested
              ELSE LET s1 == classifyFrame(s, average)
                   IN  IF s1.isActiveRef THEN requestAnimationFrame(s1) ELSE s1
         ELSE IF s.isActiveRef THEN requestAnimationFrame(s) ELSE s

\* the silence timeout's callback, lines 221-231
silenceTimeoutCallback(s) ==
    LET s1 == [s EXCEPT !.silenceTimeoutRef = FALSE]
    IN  IF /\ s1.mediaRecorderRef = "recording"
           /\ ~s1.isProcessingRef
           /\ s1.isActiveRef
           /\ s1.hasSpokenRef
        THEN processCurrentRecording(s1)
        ELSE s1

\* ------------------------------------------------------------ startRecording
\* variant of startRecording that keeps the speech flag of the previous turn
startRecordingKeepingFlag(s, average) ==
    IF ~s.streamRef \/ s.isProcessingRef \/ ~s.isActiveRef THEN s
    ELSE LET s1 == clearSilenceTimeout(s)
             s2 == [s1 EXCEPT !.voiceFrameCountRef = 0, !.voiceRun = 0,
                              !.silenceFrameCountRef = 0,
                              !.chunksRef = <<>>,
                              !.recordingElapsed = 0,
                              !.recStarted = TRUE]
         IN  IF ~s.recorderSupported THEN setError(s2, "Failed to start recording")
             ELSE LET s3 == [s2 EXCEPT
                               !.orphanRecorders =
                                   IF s2.mediaRecorderRef = "recording"
                                   THEN @ + 1 ELSE @,
                               !.mediaRecorderRef = "recording"]
                  IN  detectVoiceActivity(setState(s3, "listening"), average)

startRecording(s, average) ==
    IF ~s.streamRef \/ s.isProcessingRef \/ ~s.isActiveRef THEN s
    ELSE LET s1 == clearSilenceTimeout(s)
             s2 == [s1 EXCEPT !.hasSpokenRef = FALSE,
                              !.voiceFrameCountRef = 0, !.voiceRun = 0,
                              !.silenceFrameCountRef = 0,
                              !.chunksRef = <<>>,
                              !.recordingElapsed = 0,
                              !.recStarted = TRUE]
         IN  IF ~s.recorderSupported THEN setError(s2, "Failed to start recording")
             ELSE LET s3 == [s2 EXCEPT
                               !.orphanRecorders =
                                   IF s2.mediaRecorderRef = "recording"
                                   THEN @ + 1 ELSE @,
                               !.mediaRecorderRef = "recording"]
                  IN  detectVoiceActivity(setState(s3, "listening"), average)

\* -------------------------------------------------------------- processAudio
\* variant of processAudio without the is-processing half of its guard
processAudioUnguarded(s, size, average) ==
    IF ~s.isActiveRef THEN s
    ELSE IF size < MIN_BLOB_SIZE /\ ~s.hasSpokenRef
         THEN IF s.isActiveRef THEN startRecording(s, average) ELSE s
         ELSE [setState(s, "processing") EXCEPT
                  !.isProcessingRef = TRUE,
                  !.transcribeInFlight = @ + 1]

\* variant of processAudio that drops every short recording
processAudioSizeOnly(s, size, average) ==
    IF s.isProcessingRef \/ ~s.isActiveRef THEN s
    ELSE IF size < MIN_BLOB_SIZE
         THEN IF s.isActiveRef
              THEN startRecording([s EXCEPT !.discarded = TRUE], average)
              ELSE s
         ELSE [setState(s, "processing") EXCEPT
                  !.isProcessingRef = TRUE,
                  !.transcribeInFlight = @ + 1]

\* lines 255-285: up to the first await
processAudio(s, size, average) ==
    IF s.isProcessingRef \/ ~s.isActiveRef THEN s
    ELSE IF size < MIN_BLOB_SIZE /\ ~s.hasSpokenRef
         THEN IF s.isActiveRef
              THEN startRecording([s EXCEPT !.discarded = TRUE], average)
              ELSE s
         ELSE [setState(s, "processing") EXCEPT
                  !.isProcessingRef = TRUE,
                  !.transcribeInFlight = @ + 1]

\* if (isActiveRef.current) { setState('listening'); startRecording() } else setState('idle')
resumeOrIdle(s, average) ==
    IF s.isActiveRef
    THEN startRecording(setState(s, "listening"), average)
    ELSE setState(s, "idle")

\* variant of noSpeech that leaves the processing flag set
noSpeechKeepingFlag(s, average) ==
    IF s.isActiveRef
    THEN startRecording(setState(s, "listening"), average)
    ELSE s

\* lines 290-299: transcription failed or gave no text
noSpeech(s, average) ==
    LET s1 == [s EXCEPT !.isProcessingRef = FALSE]
    IN  IF s1.isActiveRef
        THEN startRecording(setState(s1, "listening"), average)
        ELSE s1

\* lines 301-315: the user message and the response-generation call
\* the request's sessionId is `realtime_${Date.now()}` (line 311)
transcribed(s) ==
    [addMessage(s, "user") EXCEPT !.commandInFlight = @ + 1,
                                  !.sessionIdsSent = @ \cup {0}]

\* lines 379-393: the catch block
processingFailed(s, average) ==
    LET s1 == [setError(s, "Processing failed. Resuming...") EXCEPT
                  !.isProcessingRef = FALSE, !.errorTimers = @ + 1]
    IN  resumeOrIdle(s1, average)

\* lines 320-358: a response with audio: playback is started
startPlayback(s) ==
    [setState(addMessage(s, "charlie"), "speaking") EXCEPT
        !.audioLoading = @ + 1, !.currentAudioRef = "loading"]

\* lines 359-368: a response without audio
responseNoAudio(s, average) ==
    resumeOrIdle([addMessage(s, "charlie") EXCEPT !.isProcessingRef = FALSE],
                 average)

\* lines 369-378: no response
noResponse(s, average) ==
    resumeOrIdle([s EXCEPT !.isProcessingRef = FALSE], average)

\* audio.onended and audio.onerror, lines 330-356
playbackOver(s, average) ==
    resumeOrIdle([s EXCEPT !.currentAudioRef = "null", !.isProcessingRef = FALSE],
                 average)

\* --------------------------------------------------------- mediaRecorder.onstop
onstop(s, average) ==
    IF Len(s.chunksRef) > 0
    THEN IF s.isActiveRef
         THEN processAudio(s, BlobSize(s.chunksRef), average)
         ELSE s
    ELSE s

\* ------------------------------------------------------------ stopConversation
stopConversation(s) ==
    [addMessage(setState(cleanup([s EXCEPT !.isActiveRef = FALSE]), "idle"),
                "system")
        EXCEPT !.sessionIdsSent = {}]

\* ----------------------------------------------------------- startConversation
\* lines 460-469: up to the await of getUserMedia
startConversation(s) ==
    IF s.platformOS # "web"
    THEN setError(s, "Real-time voice is only supported on web")
    ELSE [setError(setState(s, "connecting"), "none") EXCEPT
             !.getUserMediaPending = @ + 1]

\* lines 499-504: the catch block
startFailed(s) ==
    [setState(setError(s, "Microphone access denied"), "idle") EXCEPT
        !.isActiveRef = FALSE]

\* lines 479-498: the stream was granted; initThrows: setting up the audio
\* analysis throws
streamGranted(s, initThrows, average) ==
    LET s1 == [s EXCEPT !.streamRef = TRUE, !.liveStreams = @ + 1]
    IN  IF initThrows THEN startFailed(s1)
        ELSE startRecording(
                 addMessage([s1 EXCEPT !.audioContextRef = TRUE,
                                       !.analyserRef = TRUE,
                                       !.isActiveRef = TRUE,
                                       !.isProcessingRef = FALSE,
                                       !.sessionIdsSent = {}], "system"),
                 average)

\* ============================================== useCharlieVoice (part_002)
HookStatus == {"idle", "connecting", "connected", "listening", "speaking", "error"}

SdkSessions == 1..MaxHookSessions

\* the hook's state as a record
HCur ==
    [platformOS |-> platformOS, status |-> status, storeError |-> storeError,
     expanded |-> expanded, conversationRef |-> conversationRef,
     isUnmountingRef |-> isUnmountingRef, isConnectingRef |-> isConnectingRef,
     startPc |-> startPc, sdk |-> sdk, endAwait |-> endAwait,
     idleTimers |-> idleTimers, connectDue |-> connectDue]

HApply(h) ==
    /\ status' = h.status
    /\ storeError' = h.storeError
    /\ expanded' = h.expanded
    /\ conversationRef' = h.conversationRef
    /\ isUnmountingRef' = h.isUnmountingRef
    /\ isConnectingRef' = h.isConnectingRef
    /\ startPc' = h.startPc
    /\ sdk' = h.sdk
    /\ endAwait' = h.endAwait
    /\ idleTimers' = h.idleTimers
    /\ connectDue' = h.connectDue
    /\ UNCHANGED compVars

\* conversation.endSession(): an open session starts closing
endSession(h, id) ==
    [h EXCEPT !.sdk[id] = IF @ = "open" THEN "closing" ELSE @]

\* lines 70-86: startConversation up to the await of getUserMedia
hookStartConversation(h) ==
    IF h.platformOS # "web"
    THEN [h EXCEPT !.storeError = "Voice chat is only supported on web"]
    ELSE IF h.isConnectingRef \/ h.conversationRef # 0 THEN h
    ELSE [h EXCEPT !.isConnectingRef = TRUE, !.status = "connecting",
                   !.storeError = "none", !.startPc = "getUserMedia"]

\* lines 88-91 and 95-98, with the finally of line 185
abandonStart(h) ==
    [h EXCEPT !.isConnectingRef = FALSE, !.startPc = "none"]

\* lines 88-93: getUserMedia resolved
afterGetUserMedia(h) ==
    IF h.isUnmountingRef THEN abandonStart(h)
    ELSE [h EXCEPT !.startPc = "getConversation"]

\* lines 95-104: the client is loaded; Conversation.startSession is called
afterGetConversation(h, id) ==
    IF h.isUnmountingRef THEN abandonStart(h)
    ELSE [h EXCEPT !.startPc = "startSession", !.sdk[id] = "opening",
                   !.connectDue = @ \cup {id}]

\* lines 177-186: the catch and finally blocks
hookStartFailed(h) ==
    LET h1 == IF h.isUnmountingRef THEN h
              ELSE [h EXCEPT !.storeError = "Failed to connect",
                             !.status = "error", !.idleTimers = @ + 1]
    IN  [h1 EXCEPT !.isConnectingRef = FALSE, !.startPc = "none"]

\* lines 168-176 and 184-186: startSession resolved with the session
startSessionResolved(h, id) ==
    LET h1 == [h EXCEPT !.sdk[id] = "open"]
        h2 == IF ~h1.isUnmountingRef THEN [h1 EXCEPT !.conversationRef = id]
              ELSE endSession(h1, id)
    IN  [h2 EXCEPT !.isConnectingRef = FALSE, !.startPc = "none"]

\* lines 106-111
onConnect(h) ==
    IF ~h.isUnmountingRef THEN [h EXCEPT !.status = "connected"] ELSE h

\* lines 112-119
onDisconnect(h) ==
    IF ~h.isUnmountingRef
    THEN [h EXCEPT !.status = "idle", !.expanded = FALSE, !.conversationRef = 0]
    ELSE h

\* lines 140-157 (the response text kept in currentResponseRef is not modelled)
onModeChange(h, mode) ==
    IF h.isUnmountingRef THEN h
    ELSE IF mode = "speaking"
         THEN [h EXCEPT !.status = "speaking", !.expanded = TRUE]
         ELSE [h EXCEPT !.status = "listening", !.expanded = FALSE]

\* lines 158-165
onError(h) ==
    IF ~h.isUnmountingRef
    THEN [h EXCEPT !.storeError = "Connection failed", !.status = "error",
                   !.idleTimers = @ + 1]
    ELSE h

\* the end of endConversation, lines 199-202
endConversationTail(h) ==
    IF ~h.isUnmountingRef
    THEN [h EXCEPT !.status = "idle", !.expanded = FALSE]
    ELSE h

\* lines 189-203: endConversation up to the await of endSession, or to its
\* end when no conversation is held
hookEndConversation(h) ==
    IF h.conversationRef # 0
    THEN [endSession([h EXCEPT !.conversationRef = 0], h.conversationRef)
             EXCEPT !.endAwait = @ \cup {h.conversationRef}]
    ELSE endConversationTail(h)

\* lines 205-211
toggleConversation(h) ==
    IF h.status = "idle" \/ h.status = "error"
    THEN hookStartConversation(h)
    ELSE hookEndConversation(h)

\* lines 57-67: the effect's teardown
hookUnmount(h) ==
    LET h1 == [h EXCEPT !.isUnmountingRef = TRUE]
    IN  IF h1.conversationRef # 0
        THEN [endSession(h1, h1.conversationRef) EXCEPT !.conversationRef = 0]
        ELSE h1

HookInit ==
    /\ status = "idle"
    /\ storeError = "none"
    /\ expanded = FALSE
    /\ conversationRef = 0
    /\ isUnmountingRef = FALSE
    /\ isConnectingRef = FALSE
    /\ startPc = "none"
    /\ sdk = [id \in SdkSessions |-> "unused"]
    /\ endAwait = {}
    /\ idleTimers = 0
    /\ connectDue = {}

\* ---------------------------------------------------------------------- Init
InitButLimit ==
    /\ HookInit
    /\ platformOS \in {"web", "ios"}
    /\ mounted = TRUE
    /\ recorderSupported \in BOOLEAN
    /\ state = "idle"
    /\ stateRef = "idle"
    /\ error = "none"
    /\ messages = <<"charlie">>          \* the greeting, lines 101-105
    /\ isActiveRef = FALSE
    /\ isProcessingRef = FALSE
    /\ hasSpokenRef = FALSE
    /\ voiceFrameCountRef = 0
    /\ silenceFrameCountRef = 0
    /\ silenceTimeoutRef = FALSE
    /\ silenceTimers = 0
    /\ vadIntervalRef = "null"
    /\ rafScheduled = 0
    /\ mediaRecorderRef = "null"
    /\ orphanRecorders = 0
    /\ onstopPending = 0
    /\ chunksRef = <<>>
    /\ recordingElapsed = 0
    /\ streamRef = FALSE
    /\ liveStreams = 0
    /\ audioContextRef = FALSE
    /\ analyserRef = FALSE
    /\ currentAudioRef = "null"
    /\ audioLoading = 0
    /\ audioPlaying = 0
    /\ playRejectPending = 0
    /\ getUserMediaPending = 0
    /\ transcribeInFlight = 0
    /\ commandInFlight = 0
    /\ errorTimers = 0
    /\ sessionIdsSent = {}
    /\ recStarted = FALSE
    /\ timerCancelled = FALSE
    /\ voiceRun = 0
    /\ discarded = FALSE
    /\ sessions = 0
    /\ utterances = 0
    /\ stops = 0

Init == InitButLimit /\ utteranceLimit = MaxUtterances

\* ------------------------------------------------------------------- actions
\* The main button calls startConversation only while the state is idle
\* (lines 603-607).
StartConversation ==
    /\ mounted
    /\ state = "idle"
    /\ sessions < MaxSessions
    /\ Apply([startConversation(Begin) EXCEPT !.sessions = @ + 1])

\* The button is disabled while connecting (line 607); stopConversation is
\* also taken when idle, the case its idempotence is about.
StopConversation ==
    /\ mounted
    /\ state # "connecting"
    /\ stops < MaxStops
    /\ Apply([stopConversation(Begin) EXCEPT !.stops = @ + 1])

\* The component unmounts: the effect's teardown runs cleanup (lines 114-119).
Unmount ==
    /\ mounted
    /\ Apply([cleanup(Begin) EXCEPT !.mounted = FALSE, !.sessionIdsSent = {}])

\* getUserMedia settles: denied, or granted (lines 471-504)
GetUserMediaRejects ==
    /\ getUserMediaPending > 0
    /\ Apply(startFailed([Begin EXCEPT
                             !.getUserMediaPending = @ - 1]))

GetUserMediaResolves ==
    /\ getUserMediaPending > 0
    /\ \E initThrows \in BOOLEAN, average \in Energies :
          Apply(streamGranted([Begin EXCEPT
                                  !.getUserMediaPending = @ - 1],
                              initThrows, average))

\* the effect of lines 87-89 runs after the render that follows a setState
Render ==
    /\ mounted
    /\ stateRef # state
    /\ Apply([Begin EXCEPT !.stateRef = state])

\* Time passes while a recording runs.  Stop events and effects are delivered
\* within milliseconds, so none is pending when MAX_RECORDING_MS has elapsed.
Tick ==
    /\ mediaRecorderRef = "recording"
    /\ onstopPending = 0
    /\ stateRef = state
    /\ recordingElapsed <= MAX_RECORDING_MS
    /\ Apply(timePasses([Begin EXCEPT
                            !.recordingElapsed = MAX_RECORDING_MS + 1]))

\* A scheduled animation-frame callback runs detectVoiceActivity; isRef: it is
\* the callback whose handle vadIntervalRef holds.
AnimationFrame ==
    /\ rafScheduled > 0
    /\ \E isRef \in BOOLEAN, average \in Energies :
          /\ isRef => vadIntervalRef = "live"
          /\ ~isRef => rafScheduled > (IF vadIntervalRef = "live" THEN 1 ELSE 0)
          /\ Apply(detectVoiceActivity(
                       [Begin EXCEPT
                           !.rafScheduled = @ - 1,
                           !.vadIntervalRef = IF isRef THEN "stale" ELSE @],
                       average))

SilenceTimeoutFires ==
    /\ silenceTimers > 0
    /\ Apply(silenceTimeoutCallback(timePasses([Begin EXCEPT
                                        !.silenceTimers = @ - 1])))

\* A stopped recorder delivers its stop event.  Nothing but onstop reads
\* chunksRef, so the chunks ondataavailable (lines 425-429) pushed since the
\* buffer was last emptied are added here: n is their number so far.
RecorderStopEvent ==
    /\ onstopPending > 0
    /\ \E n \in Len(chunksRef)..MaxChunks, average \in Energies :
          Apply(onstop([Begin EXCEPT !.onstopPending = @ - 1,
                                   !.chunksRef = [i \in 1..n |-> ChunkBytes]],
                       average))

\* the transcription call settles (lines 282-302)
TranscribeSettles ==
    /\ transcribeInFlight > 0
    /\ \E outcome \in {"reject", "nospeech", "text"}, average \in Energies :
          LET s == [Begin EXCEPT !.transcribeInFlight = @ - 1]
          IN  Apply(CASE outcome = "reject" -> processingFailed(s, average)
                      [] outcome = "nospeech" -> noSpeech(s, average)
                      [] outcome = "text" -> transcribed(s))

\* the response-generation call settles (lines 306-378)
CommandSettles ==
    /\ commandInFlight > 0
    /\ \E outcome \in {"reject", "noresponse", "text", "audio"}, average \in Energies :
          LET s == [Begin EXCEPT !.commandInFlight = @ - 1]
          IN  Apply(CASE outcome = "reject" -> processingFailed(s, average)
                      [] outcome = "noresponse" -> noResponse(s, average)
                      [] outcome = "text" -> responseNoAudio(s, average)
                      [] outcome = "audio" -> startPlayback(s))

\* audio.play() resolves: playback has begun (line 358)
PlayResolves ==
    /\ audioLoading > 0
    /\ \E isRef \in BOOLEAN :
          /\ isRef => currentAudioRef = "loading"
          /\ ~isRef => audioLoading > (IF currentAudioRef = "loading" THEN 1 ELSE 0)
          /\ Apply([Begin EXCEPT
                       !.audioLoading = @ - 1, !.audioPlaying = @ + 1,
                       !.currentAudioRef = IF isRef THEN "playing" ELSE @])

\* audio.play() is refused (no error event): the catch block runs
PlayRefused ==
    /\ audioLoading > 0
    /\ \E isRef \in BOOLEAN, average \in Energies :
          /\ isRef => currentAudioRef = "loading"
          /\ ~isRef => audioLoading > (IF currentAudioRef = "loading" THEN 1 ELSE 0)
          /\ Apply(processingFailed(
                       [Begin EXCEPT
                           !.audioLoading = @ - 1,
                           !.currentAudioRef = IF isRef THEN "dead" ELSE @],
                       average))

\* the element cannot load: audio.onerror runs, and play() will be rejected
AudioLoadError ==
    /\ audioLoading > 0
    /\ \E average \in Energies :
          Apply(playbackOver([Begin EXCEPT
                                 !.audioLoading = @ - 1,
                                 !.playRejectPending = @ + 1],
                             average))

\* a rejected play() is delivered to the await of line 358: the catch block runs
PlayRejected ==
    /\ playRejectPending > 0
    /\ \E average \in Energies :
          Apply(processingFailed([Begin EXCEPT
                                     !.playRejectPending = @ - 1],
                                 average))

\* audio.onerror while playing
AudioPlayError ==
    /\ audioPlaying > 0
    /\ \E average \in Energies :
          Apply(playbackOver([Begin EXCEPT !.audioPlaying = @ - 1],
                             average))

\* audio.onended
AudioEnded ==
    /\ audioPlaying > 0
    /\ \E average \in Energies :
          Apply(playbackOver([Begin EXCEPT !.audioPlaying = @ - 1],
                             average))

\* setTimeout(() => setError(null), 3000), line 385
ErrorTimeoutFires ==
    /\ errorTimers > 0
    /\ Apply(setError([Begin EXCEPT !.errorTimers = @ - 1], "none"))

Next ==
    \/ StartConversation
    \/ StopConversation
    \/ Unmount
    \/ GetUserMediaRejects
    \/ GetUserMediaResolves
    \/ Render
    \/ Tick
    \/ AnimationFrame
    \/ SilenceTimeoutFires
    \/ RecorderStopEvent
    \/ TranscribeSettles
    \/ CommandSettles
    \/ PlayResolves
    \/ PlayRefused
    \/ AudioLoadError
    \/ PlayRejected
    \/ AudioPlayError
    \/ AudioEnded
    \/ ErrorTimeoutFires

Spec == Init /\ [][Next]_vars

\* The behaviours of Spec in which the events the platform delivers within
\* milliseconds (a stopped recorder's stop event, the effect after a render)
\* are handled before anything else happens.
PromptPending == onstopPending > 0 \/ (mounted /\ stateRef # state)

NextPrompt ==
    \/ RecorderStopEvent
    \/ Render
    \/ ~PromptPending /\ StartConversation
    \/ ~PromptPending /\ StopConversation
    \/ ~PromptPending /\ Unmount
    \/ ~PromptPending /\ GetUserMediaRejects
    \/ ~PromptPending /\ GetUserMediaResolves
    \/ ~PromptPending /\ Tick
    \/ ~PromptPending /\ AnimationFrame
    \/ ~PromptPending /\ SilenceTimeoutFires
    \/ ~PromptPending /\ TranscribeSettles
    \/ ~PromptPending /\ CommandSettles
    \/ ~PromptPending /\ PlayResolves
    \/ ~PromptPending /\ PlayRefused
    \/ ~PromptPending /\ AudioLoadError
    \/ ~PromptPending /\ PlayRejected
    \/ ~PromptPending /\ AudioPlayError
    \/ ~PromptPending /\ AudioEnded
    \/ ~PromptPending /\ ErrorTimeoutFires

SpecPrompt == Init /\ [][NextPrompt]_vars

\* SpecPrompt with room for a second utterance
InitLong == InitButLimit /\ utteranceLimit = MaxUtterancesLong

SpecLong == InitLong /\ [][NextPrompt]_vars

\* SpecPrompt with progress: whatever the browser has scheduled or has in
\* flight (events, effects, timers, animation frames, promises of getUserMedia,
\* fetch and play) is eventually delivered.  The user's actions (the button,
\* leaving the screen) are under no obligation to happen.
Fairness ==
    /\ WF_vars(RecorderStopEvent)
    /\ WF_vars(Render)
    /\ WF_vars(~PromptPending /\ GetUserMediaRejects)
    /\ WF_vars(~PromptPending /\ GetUserMediaResolves)
    /\ WF_vars(~PromptPending /\ Tick)
    /\ WF_vars(~PromptPending /\ AnimationFrame)
    /\ WF_vars(~PromptPending /\ SilenceTimeoutFires)
    /\ WF_vars(~PromptPending /\ TranscribeSettles)
    /\ WF_vars(~PromptPending /\ CommandSettles)
    /\ WF_vars(~PromptPending /\ (PlayResolves \/ PlayRefused \/ AudioLoadError))
    /\ WF_vars(~PromptPending /\ PlayRejected)
    /\ WF_vars(~PromptPending /\ (AudioPlayError \/ AudioEnded))
    /\ WF_vars(~PromptPending /\ ErrorTimeoutFires)

SpecFair == Init /\ [][NextPrompt]_vars /\ Fairness

\* ------------------------------------------------- useCharlieVoice: actions
UnusedSessions == {id \in SdkSessions : sdk[id] = "unused"}

\* a call that would start a session is offered while the bound leaves one
StartOffered ==
    (platformOS = "web" /\ ~isConnectingRef /\ conversationRef = 0) =>
        UnusedSessions # {}

\* the callers of the hook: the three functions it returns
HookToggle ==
    /\ ~isUnmountingRef
    /\ (status \in {"idle", "error"}) => StartOffered
    /\ HApply(toggleConversation(HCur))

HookStart ==
    /\ ~isUnmountingRef
    /\ StartOffered
    /\ HApply(hookStartConversation(HCur))

HookEnd ==
    /\ ~isUnmountingRef
    /\ HApply(hookEndConversation(HCur))

HookUnmount ==
    /\ ~isUnmountingRef
    /\ HApply(hookUnmount(HCur))

HookGetUserMediaResolves ==
    /\ startPc = "getUserMedia"
    /\ HApply(afterGetUserMedia(HCur))

HookGetUserMediaRejects ==
    /\ startPc = "getUserMedia"
    /\ idleTimers < MaxIdleTimers
    /\ HApply(hookStartFailed(HCur))

GetConversationResolves ==
    /\ startPc = "getConversation"
    /\ UnusedSessions # {}
    /\ LET id == CHOOSE i \in UnusedSessions : \A j \in UnusedSessions : i <= j
       IN  HApply(afterGetConversation(HCur, id))

GetConversationRejects ==
    /\ startPc = "getConversation"
    /\ idleTimers < MaxIdleTimers
    /\ HApply(hookStartFailed(HCur))

StartSessionResolves ==
    /\ startPc = "startSession"
    /\ \E id \in SdkSessions :
          /\ sdk[id] = "opening"
          /\ HApply(startSessionResolved(HCur, id))

StartSessionRejects ==
    /\ startPc = "startSession"
    /\ idleTimers < MaxIdleTimers
    /\ \E id \in SdkSessions :
          /\ sdk[id] = "opening"
          /\ HApply(hookStartFailed([HCur EXCEPT !.sdk[id] = "closed",
                                                 !.connectDue = @ \ {id}]))

\* the SDK calls onConnect once, while the session is being opened or open
SdkConnect ==
    \E id \in connectDue :
        /\ sdk[id] \in {"opening", "open"}
        /\ HApply(onConnect([HCur EXCEPT !.connectDue = @ \ {id}]))

SdkModeChange ==
    \E id \in SdkSessions, mode \in {"speaking", "listening"} :
        /\ sdk[id] = "open"
        /\ HApply(onModeChange(HCur, mode))

SdkError ==
    \E id \in SdkSessions :
        /\ sdk[id] \in {"opening", "open"}
        /\ idleTimers < MaxIdleTimers
        /\ HApply(onError(HCur))

\* a session ends, closed by endSession() or by the other side: the SDK
\* calls onDisconnect
SdkDisconnect ==
    \E id \in SdkSessions :
        /\ sdk[id] \in {"open", "closing"}
        /\ HApply(onDisconnect([HCur EXCEPT !.sdk[id] = "closed",
                                            !.connectDue = @ \ {id}]))

\* the endSession() an endConversation awaits resolves, lines 194-202
EndSessionResolves ==
    \E id \in endAwait :
        /\ sdk[id] = "closed"
        /\ HApply(endConversationTail([HCur EXCEPT !.endAwait = @ \ {id}]))

\* setTimeout(() => setStatus('idle'), 2000), lines 163 and 182
IdleTimeoutFires ==
    /\ idleTimers > 0
    /\ HApply([HCur EXCEPT !.idleTimers = @ - 1, !.status = "idle"])

NextHook ==
    \/ HookToggle
    \/ HookStart
    \/ HookEnd
    \/ HookUnmount
    \/ HookGetUserMediaResolves
    \/ HookGetUserMediaRejects
    \/ GetConversationResolves
    \/ GetConversationRejects
    \/ StartSessionResolves
    \/ StartSessionRejects
    \/ SdkConnect
    \/ SdkModeChange
    \/ SdkError
    \/ SdkDisconnect
    \/ EndSessionResolves
    \/ IdleTimeoutFires

\* the hook on its own; the component of part_001 stays as constructed
InitHook == Init /\ recorderSupported = TRUE

SpecHook == InitHook /\ [][NextHook]_vars

HookTypeOK ==
    /\ status \in HookStatus
    /\ conversationRef \in 0..MaxHookSessions
    /\ startPc \in {"none", "getUserMedia", "getConversation", "startSession"}
    /\ sdk \in [SdkSessions -> {"unused", "opening", "open", "closing", "closed"}]
    /\ endAwait \subseteq SdkSessions /\ connectDue \subseteq SdkSessions
    /\ idleTimers \in 0..MaxIdleTimers
    /\ (startPc # "none") => isConnectingRef

TypeOK ==
    /\ state \in ConversationState
    /\ stateRef \in ConversationState
    /\ mediaRecorderRef \in {"null", "recording", "inactive"}
    /\ vadIntervalRef \in {"null", "live", "stale"}
    /\ currentAudioRef \in {"null", "loading", "playing", "dead"}
    /\ silenceTimers \in 0..1 /\ rafScheduled >= 0 /\ onstopPending >= 0
    /\ audioLoading >= 0 /\ audioPlaying >= 0 /\ liveStreams >= 0
    /\ (vadIntervalRef = "live") => rafScheduled > 0
    /\ (currentAudioRef = "loading") => audioLoading > 0
    /\ (currentAudioRef = "playing") => audioPlaying > 0

\* =================================================================== claims
\* steps of interest, read off the variables a handler changes
EndOfTurnStep == mediaRecorderRef = "recording" /\ mediaRecorderRef' = "inactive"

PipelineInvokedStep == transcribeInFlight' = transcribeInFlight + 1

PipelineSettlesStep ==
    transcribeInFlight' < transcribeInFlight \/ commandInFlight' < commandInFlight

StopStep == stops' = stops + 1

UnmountStep == mounted /\ ~mounted'

VoiceFrameStep == voiceFrameCountRef' = voiceFrameCountRef + 1

SilenceFrameStep == silenceFrameCountRef' = silenceFrameCountRef + 1

Recording == mediaRecorderRef = "recording" \/ orphanRecorders > 0

PipelineInFlight == transcribeInFlight + commandInFlight > 0

Playing == audioPlaying > 0

\* C1: a stop during processing makes the state idle at once, and a pipeline
\* call that settles after the stop is discarded: it appends no message,
\* starts no playback and leaves the state idle.
C1_StaleResultDiscarded ==
    [][ /\ (StopStep /\ state = "processing") => state' = "idle"
        /\ (PipelineSettlesStep /\ ~isActiveRef /\ state = "idle") =>
              /\ messages' = messages
              /\ audioLoading' = audioLoading /\ audioPlaying' = audioPlaying
              /\ state' = "idle" ]_vars

\* C2: while the state is processing no step ends a turn (stops the recorder
\* through processCurrentRecording) and no step invokes the pipeline.
C2_NoSecondEndOfTurn ==
    [][ state = "processing" => ~EndOfTurnStep /\ ~PipelineInvokedStep ]_vars

\* a timer is pending and the max duration has passed while processing
C2_Witness ==
    /\ state = "processing" /\ isProcessingRef /\ transcribeInFlight = 1
    /\ silenceTimers = 1 /\ hasSpokenRef
    /\ recordingElapsed > MAX_RECORDING_MS

C4_TimerArmedAndCancelled ==
    [][ /\ (SilenceFrameStep /\ hasSpokenRef'
              /\ silenceFrameCountRef' >= SILENCE_FRAMES_REQUIRED) =>
              silenceTimers' = 1
        /\ VoiceFrameStep => silenceTimers' = 0
        /\ silenceTimers' = (IF silenceTimeoutRef' THEN 1 ELSE 0) ]_vars

\* the timer was armed after speech, and a voice frame has just cancelled it
C4_Witness ==
    /\ timerCancelled /\ state = "listening" /\ hasSpokenRef
    /\ voiceFrameCountRef = 1 /\ silenceFrameCountRef = 0
    /\ silenceTimers = 0 /\ ~silenceTimeoutRef

C6_FlagOncePerTurn ==
    [][ /\ voiceFrameCountRef' >= VOICE_FRAMES_REQUIRED => hasSpokenRef'
        /\ (hasSpokenRef /\ ~hasSpokenRef') => recStarted' \/ StopStep \/ UnmountStep
        /\ recStarted' => ~hasSpokenRef' ]_vars

\* a new recording began after a turn in which speech was confirmed
C6_Witness ==
    /\ recStarted /\ ~hasSpokenRef /\ utterances = 1
    /\ mediaRecorderRef = "recording" /\ state = "listening"

\* C7: at most one of recording, pipeline call in flight, playing
C7_OneActivity ==
    /\ ~(Recording /\ PipelineInFlight)
    /\ ~(Recording /\ Playing)
    /\ ~(PipelineInFlight /\ Playing)

\* C8: right after stopConversation from listening, processing or speaking
\* nothing of the session is left
C8_StopReleasesAll ==
    [][ (StopStep /\ state \in {"listening", "processing", "speaking"}) =>
            /\ silenceTimers' = 0 /\ ~silenceTimeoutRef'
            /\ rafScheduled' = 0
            /\ mediaRecorderRef' # "recording" /\ orphanRecorders' = 0
            /\ ~streamRef' /\ (streamRef => liveStreams' = liveStreams - 1)
            /\ audioPlaying' = 0
            /\ ~isActiveRef'
            /\ state' = "idle" ]_vars

TransitionTable ==
    {<<"idle", "connecting">>, <<"connecting", "listening">>,
     <<"connecting", "idle">>, <<"listening", "processing">>,
     <<"processing", "listening">>, <<"processing", "speaking">>,
     <<"speaking", "listening">>, <<"listening", "idle">>,
     <<"processing", "idle">>, <<"speaking", "idle">>}

C10_OnlyTableTransitions ==
    [][ state' # state => <<state, state'>> \in TransitionTable ]_vars

\* C11: a microphone grant that arrives after the session was torn down while
\* connecting (the stop button is disabled then, so the teardown is the
\* unmount) is dropped: the active flag stays false, the stream is not kept
\* or left live, no recorder and no polling loop starts, no message is
\* appended and the state does not become listening.
GrantStep == getUserMediaPending' < getUserMediaPending

C11_StaleGrantDropped ==
    [][ (GrantStep /\ ~mounted) =>
            /\ ~isActiveRef' /\ ~streamRef' /\ liveStreams' = liveStreams
            /\ mediaRecorderRef' # "recording"
            /\ rafScheduled' = rafScheduled
            /\ messages' = messages /\ state' # "listening" ]_vars

\* C12: a pipeline call that settles while a session is active (the component
\* mounted) and no pipeline
\* run of that session is in progress belongs to an earlier session (every
\* run sets isProcessingRef before its first call and clears it after its
\* last); it must not change the state, the flags, the recorder, the buffer
\* or the message log of the session, nor issue a further call.
C12_NoLeftovers ==
    [][ (PipelineSettlesStep /\ mounted /\ isActiveRef /\ ~isProcessingRef) =>
            /\ state' = state /\ messages' = messages
            /\ isActiveRef' = isActiveRef /\ isProcessingRef' = isProcessingRef
            /\ hasSpokenRef' = hasSpokenRef
            /\ mediaRecorderRef' = mediaRecorderRef
            /\ orphanRecorders' = orphanRecorders
            /\ chunksRef' = chunksRef
            /\ commandInFlight' <= commandInFlight ]_vars

\* C13: whenever the conversation state is idle no microphone stream is held
\* (no reference, no live tracks), no recorder is recording and the active
\* flag is false.
C13_IdleHoldsNothing ==
    (mounted /\ state = "idle") =>
        /\ ~streamRef /\ liveStreams = 0
        /\ mediaRecorderRef # "recording" /\ orphanRecorders = 0
        /\ ~isActiveRef

\* C14: wherever a transcription is in flight in an active conversation, its
\* settling with failure or empty text makes no response-generation call,
\* appends no message, surfaces no error, clears the processing flag and
\* returns to listening with a new recording running.
C14_NoSpeechResumes ==
    (mounted /\ isActiveRef /\ transcribeInFlight > 0) =>
        \A average \in Energies :
            LET r == noSpeech([Begin EXCEPT !.transcribeInFlight = @ - 1], average)
            IN  r.ok =>
                  /\ r.commandInFlight = commandInFlight
                  /\ r.messages = messages
                  /\ r.error = error /\ r.errorTimers = errorTimers
                  /\ ~r.isProcessingRef
                  /\ r.state = "listening"
                  /\ r.mediaRecorderRef = "recording" /\ r.recStarted

\* listening resumed after a turn whose transcription gave no text: a new
\* recording, no user message, no error and no error timer
C14_Witness ==
    /\ recStarted /\ mounted /\ isActiveRef /\ ~isProcessingRef
    /\ state = "listening" /\ mediaRecorderRef = "recording"
    /\ utterances = 1 /\ sessions = 1 /\ stops = 0
    /\ transcribeInFlight = 0 /\ commandInFlight = 0
    /\ messages = <<"charlie", "system">>
    /\ error = "none" /\ errorTimers = 0

\* C15: all response-generation requests of one conversation carry the same
\* session identifier.
C15_OneSessionId == Cardinality(sessionIdsSent) <= 1

\* C16: both frame counters are non-negative and at most one of them is
\* non-zero, in every reachable state and also after a decay-band frame
\* classified in it (the exception the claim permits is never used).
C16_CountersExclusive ==
    /\ voiceFrameCountRef >= 0 /\ silenceFrameCountRef >= 0
    /\ ~(voiceFrameCountRef > 0 /\ silenceFrameCountRef > 0)
    /\ LET r == decayFrame(Cur)
       IN  /\ r.voiceFrameCountRef >= 0 /\ r.silenceFrameCountRef >= 0
           /\ ~(r.voiceFrameCountRef > 0 /\ r.silenceFrameCountRef > 0)

\* before speech: silence was counted, then voice frames took over
C16_Witness ==
    /\ state = "listening" /\ stateRef = "listening"
    /\ mediaRecorderRef = "recording" /\ ~hasSpokenRef /\ utterances = 0
    /\ voiceFrameCountRef = VOICE_FRAMES_REQUIRED - 1
    /\ silenceFrameCountRef = 0

\* C17: every error notice is eventually cleared without any user action.
C17_ErrorsAutoClear == (error # "none") ~> (error = "none")

\* a turn has just been ended: the recorder was stopped and owes its stop event
TurnEnded ==
    /\ mounted /\ isActiveRef
    /\ mediaRecorderRef = "inactive" /\ onstopPending > 0

\* C18: after every end-of-turn, unless the conversation is stopped, the
\* system is eventually in listening with a recorder recording again.
C18_TurnResumes ==
    TurnEnded ~> \/ state = "listening" /\ mediaRecorderRef = "recording"
                 \/ ~isActiveRef
                 \/ ~mounted

\* C19: connecting is transient: the state eventually becomes listening or
\* idle (or the component is gone).
C19_ConnectingIsTransient ==
    (mounted /\ state = "connecting") ~> (state \in {"listening", "idle"} \/ ~mounted)

ConfirmStep == ~hasSpokenRef /\ hasSpokenRef'

\* C21: the flag is set only by a frame that ends a run of at least
\* VOICE_FRAMES_REQUIRED voice frames in a row.
C21_ConfirmedByConsecutiveRun ==
    [][ConfirmStep => voiceRun + 1 >= VOICE_FRAMES_REQUIRED]_vars

\* detectVoiceActivity would classify a frame in this state (lines 165, 181-189)
Classifying ==
    /\ analyserRef /\ isActiveRef
    /\ mediaRecorderRef = "recording" /\ stateRef = "listening"
    /\ ~maxDurationReached(Cur)

\* C22: before speech is confirmed a frame strictly between the thresholds
\* lowers the voice count by one, not below zero, and leaves the silence
\* count, the flag, the pending timer and the state alone; once speech is
\* confirmed every frame is counted as voice or as not speaking.
C22_DecayBand ==
    Classifying =>
        \A average \in Energies :
            LET r == classifyFrame(Cur, average)
            IN  r.ok =>
                /\ (~hasSpokenRef /\ SILENCE_THRESHOLD < average
                                  /\ average < VOICE_THRESHOLD) =>
                       /\ r.voiceFrameCountRef =
                              (IF voiceFrameCountRef > 0
                               THEN voiceFrameCountRef - 1 ELSE 0)
                       /\ r.silenceFrameCountRef = silenceFrameCountRef
                       /\ r.hasSpokenRef = hasSpokenRef
                       /\ r.silenceTimeoutRef = silenceTimeoutRef
                       /\ r.silenceTimers = silenceTimers
                       /\ r.state = state
                       /\ r.mediaRecorderRef = mediaRecorderRef
                /\ hasSpokenRef =>
                       \/ /\ r.voiceFrameCountRef = voiceFrameCountRef + 1
                          /\ r.silenceFrameCountRef = 0
                       \/ /\ r.silenceFrameCountRef = silenceFrameCountRef + 1
                          /\ r.voiceFrameCountRef = 0

\* a decay frame has just lowered a non-zero voice count
C22_Witness ==
    /\ state = "listening" /\ mediaRecorderRef = "recording" /\ ~hasSpokenRef
    /\ voiceRun = 0 /\ voiceFrameCountRef = VOICE_FRAMES_REQUIRED - 2
    /\ silenceFrameCountRef = 0

\* a frame is polled while listening with a recorder recording
PolledInListening ==
    /\ analyserRef /\ isActiveRef
    /\ mediaRecorderRef = "recording" /\ stateRef = "listening"

\* C23: a frame polled in listening once the recording is older than
\* MAX_RECORDING_MS ends the turn at that frame if speech was confirmed,
\* whatever its energy and without classifying it; if speech was not
\* confirmed the recording goes on.
C23_MaxDurationFallback ==
    (PolledInListening /\ recordingElapsed > MAX_RECORDING_MS) =>
        \A average \in Energies :
            LET r == detectVoiceActivity(Begin, average)
            IN  r.ok =>
                /\ hasSpokenRef =>
                       /\ r.mediaRecorderRef = "inactive"
                       /\ r.onstopPending = onstopPending + 1
                       /\ r.voiceFrameCountRef = voiceFrameCountRef
                       /\ r.silenceFrameCountRef = silenceFrameCountRef
                /\ ~hasSpokenRef =>
                       /\ r.mediaRecorderRef = "recording"
                       /\ r.onstopPending = onstopPending

\* the fallback has ended a turn of continuous voice: no silence was counted
\* and no timer was ever armed
C23_Witness ==
    /\ isActiveRef /\ hasSpokenRef /\ recordingElapsed > MAX_RECORDING_MS
    /\ mediaRecorderRef = "inactive" /\ onstopPending = 1
    /\ voiceFrameCountRef >= VOICE_FRAMES_REQUIRED /\ silenceFrameCountRef = 0
    /\ ~silenceTimeoutRef /\ silenceTimers = 0 /\ state = "listening"

\* C24: a stop event whose recording is below MIN_BLOB_SIZE while the flag is
\* not set makes no call, adds no message and no error, does not enter
\* processing and starts a new recording; with the flag set the recording is
\* handed to the pipeline whatever its size.
C24_NoiseDiscarded ==
    (onstopPending > 0 /\ mounted /\ isActiveRef /\ ~isProcessingRef) =>
        \A n \in 1..MaxChunks, average \in Energies :
            LET r == onstop([Begin EXCEPT !.onstopPending = @ - 1,
                                          !.chunksRef = [i \in 1..n |-> ChunkBytes]],
                            average)
            IN  (n >= Len(chunksRef) /\ r.ok) =>
                /\ (BlobSize([i \in 1..n |-> ChunkBytes]) < MIN_BLOB_SIZE
                        /\ ~hasSpokenRef) =>
                       /\ r.transcribeInFlight = transcribeInFlight
                       /\ r.commandInFlight = commandInFlight
                       /\ r.messages = messages
                       /\ r.error = error /\ r.errorTimers = errorTimers
                       /\ r.state # "processing" /\ ~r.isProcessingRef
                       /\ r.recStarted /\ r.mediaRecorderRef = "recording"
                /\ hasSpokenRef =>
                       /\ r.transcribeInFlight = transcribeInFlight + 1
                       /\ r.state = "processing" /\ r.isProcessingRef

\* a short recording has just been dropped and a new one begun
C24_Witness ==
    /\ discarded /\ recStarted /\ mediaRecorderRef = "recording"
    /\ state = "listening" /\ ~hasSpokenRef /\ ~isProcessingRef
    /\ transcribeInFlight = 0 /\ commandInFlight = 0 /\ error = "none"

\* the catch block of processAudio runs in this step (it arms the timer that
\* clears the error)
FailureStep == errorTimers' = errorTimers + 1

\* C25: when a pipeline call fails while the conversation is active, the
\* error is surfaced, the processing flag is cleared, the state returns to
\* listening and the recording is not resumed in the step that handles the
\* failure but later; when the conversation is not active the state ends
\* idle and no recording starts.
C25_FailureResumesLater ==
    [][ (FailureStep /\ mounted) =>
            /\ error' = "Processing failed. Resuming..."
            /\ ~isProcessingRef'
            /\ isActiveRef => /\ state' = "listening"
                              /\ ~recStarted'
                              /\ mediaRecorderRef' = mediaRecorderRef
            /\ ~isActiveRef => /\ state' = "idle"
                               /\ ~recStarted'
                               /\ mediaRecorderRef' = mediaRecorderRef ]_vars

\* the playback of a response ends normally or fails in this step: an element
\* stops playing, or one that was loading gives up, other than by a teardown
PlaybackOverStep ==
    /\ ~StopStep /\ ~UnmountStep
    /\ \/ audioPlaying' < audioPlaying
       \/ audioLoading' < audioLoading /\ audioPlaying' = audioPlaying

\* a response with text and no audio is handled in this step
TextOnlyStep ==
    /\ commandInFlight' < commandInFlight
    /\ Len(messages') > Len(messages)
    /\ audioLoading' = audioLoading

\* C26: when a playback ends or fails, the audio handle and the processing
\* flag are cleared, no error is surfaced (a failure is handled like a normal
\* end), and the state becomes listening with a new recording if the
\* conversation is active, idle with no recording otherwise; a response with
\* text and no audio goes straight to listening.
C26_PlaybackFailureLikeEnd ==
    [][ /\ (PlaybackOverStep /\ mounted) =>
              /\ currentAudioRef' = "null"
              /\ ~isProcessingRef'
              /\ error' = error
              /\ isActiveRef => state' = "listening" /\ recStarted'
              /\ ~isActiveRef => state' = "idle" /\ ~recStarted'
        /\ (TextOnlyStep /\ mounted /\ isActiveRef) =>
              state' = "listening" /\ recStarted' ]_vars

\* C27: at most one animation-frame request running detectVoiceActivity is
\* scheduled at any time.
C27_OnePollingCallback == rafScheduled <= 1

\* C28: no recorder is recording other than the one mediaRecorderRef holds.
C28_OneRecorder == orphanRecorders = 0

\* C29: in the hook, while the status is idle no SDK session is open and
\* conversationRef holds none.
C29_IdleHoldsNoSession ==
    (~isUnmountingRef /\ status = "idle") =>
        /\ conversationRef = 0
        /\ \A id \in SdkSessions : sdk[id] # "open"

\* the SDK sessions open or being opened
LiveSessions == {id \in SdkSessions : sdk[id] \in {"opening", "open"}}

\* the session id, ended by endSession(), delivers its onDisconnect in this step
EndedSessionDisconnects(id) == sdk[id] = "closing" /\ sdk'[id] = "closed"

\* C30: in the hook at most one SDK session is open or being opened, and the
\* disconnect callback of an ended session leaves the reference and the
\* status of a newer session alone.
C30_OneSessionNoStaleDisconnect ==
    [][ /\ Cardinality(LiveSessions') <= 1
        /\ \A id \in SdkSessions :
              (EndedSessionDisconnects(id) /\ ~isUnmountingRef
                  /\ LiveSessions \ {id} # {}) =>
                 /\ conversationRef' = conversationRef
                 /\ status' = status ]_vars

====
